---- MODULE Spec2Model ----
(***************************************************************************)
(* A model of the pyjira command-line client: the bulk-update pipeline of  *)
(* cli.py (bulk_update) together with JiraClient.bulk_update_batch, the    *)
(* alias dispatcher of cli.py (run, create_alias_command), the commands    *)
(* list, my and update, load_config of config.py, and search_issues and    *)
(* transition_issue of JiraClient.                                         *)
(***************************************************************************)
EXTENDS Integers, Sequences, FiniteSets, TLC

(***************************************************************************)
(* Bounds                                                                  *)
(***************************************************************************)
MaxIssues == 4
MaxBatch == 3

(***************************************************************************)
(* Generic helpers on sequences                                            *)
(***************************************************************************)
Range(s) == {s[k] : k \in 1..Len(s)}

IsPrefix(s, t) == Len(s) <= Len(t) /\ SubSeq(t, 1, Len(s)) = s

RECURSIVE Flatten(_)
Flatten(ss) == IF ss = <<>> THEN <<>> ELSE Head(ss) \o Flatten(Tail(ss))

InjectiveSeqs(S, n) ==
    {s \in UNION {[1..k -> S] : k \in 0..n} :
        \A a, b \in 1..Len(s) : a # b => s[a] # s[b]}

(***************************************************************************)
(* State of one bulk-update invocation                                     *)
(***************************************************************************)
VARIABLES
    pc,          \* position in bulk_update / bulk_update_batch
    issues,      \* the result set of client.search_issues(query)
    batch_size,  \* --batch-size
    status,      \* --status given
    assignee,    \* --assignee given
    add_labels,  \* --add-labels given
    batch,       \* the batch being filled or processed
    i,           \* number of issues the for loop of bulk_update has taken
    j,           \* number of issues of the batch bulk_update_batch is done with
    tdone,       \* the transition of the current issue of the batch is done
    updated,     \* the counter reported at the end
    completed,   \* the progress task's completed amount
    calls,       \* what was sent to the client and the progress sink, in order
    console,     \* what was printed
    exit_code,   \* the process exit code (-1 while running)
    yes,         \* --yes given
    confirmation \* what became of Confirm.ask: none, confirmed or declined

bvars == <<pc, issues, batch_size, status, assignee, add_labels, batch, i, j,
           tdone, updated, completed, calls, console, exit_code, yes,
           confirmation>>

(***************************************************************************)
(* State of one dispatch through run                                       *)
(***************************************************************************)
VARIABLES
    config,            \* the aliases mapping of the configuration file
    startup_aliases,   \* the aliases mapping read when the module was imported
    commands,          \* cli.commands: name -> "builtin" or "alias"
    invocation,        \* what the user typed after "run"
    dpc,               \* position of the dispatch
    command_or_alias,  \* parameter of the running run call
    args,              \* parameter of the running run call
    target,            \* the command whose main is being called
    target_args,       \* the arguments given to that main
    depth,             \* nesting of run calls
    resolved,          \* the command name the last run call resolved to
    expansions,        \* the alias expansions made, in order
    invoked            \* the calls of cli.commands[...].main, in order

avars == <<config, startup_aliases, commands, invocation, dpc, command_or_alias, args, target,
           target_args, depth, resolved, expansions, invoked>>

(***************************************************************************)
(* State of one run of the alias tokenizer on a string                     *)
(***************************************************************************)
VARIABLES
    tpc,           \* position of the tokenizer run
    tok_string,    \* the string the for loop of run goes over (alias_command)
    tok_parts      \* the tokens it leaves (parts)

tvars == <<tpc, tok_string, tok_parts>>

(***************************************************************************)
(* State of one invocation of the list command                             *)
(***************************************************************************)
VARIABLES
    list_cmd,              \* the command typed: list or my
    lpc,                   \* position in list
    project,               \* --project
    list_assignee,         \* --assignee
    list_status,           \* --status
    query,                 \* --query
    JIRA_DEFAULT_PROJECT,  \* the environment variable
    conditions,            \* the clauses collected
    jql,                   \* the query given to client.search_issues
    list_console,          \* what list printed
    list_exit              \* the exit code of list (-1 while running)

fvars == <<list_cmd, lpc, project, list_assignee, list_status, query,
           JIRA_DEFAULT_PROJECT, conditions, jql, list_console, list_exit>>

(***************************************************************************)
(* State of one invocation of the update command                           *)
(***************************************************************************)
VARIABLES
    upc,                  \* position in update
    update_yes,           \* --yes given
    update_options,       \* the options given with a non-empty value
    update_confirmation,  \* what became of Confirm.ask
    update_calls,         \* the calls sent to the remote service, in order
    update_console,       \* what update printed
    update_exit           \* the exit code of update (-1 while running)

uvars == <<upc, update_yes, update_options, update_confirmation, update_calls,
           update_console, update_exit>>

(***************************************************************************)
(* State of one call of JiraClient.transition_issue                        *)
(***************************************************************************)
VARIABLES
    xpc,              \* position in transition_issue
    transitions,      \* the transitions the remote service offers for the issue
    transition_name,  \* parameter
    resolution,       \* parameter
    transition_id,    \* the id found by the for loop (None when none)
    x_calls,          \* the calls sent to self.client, in order
    x_origin,         \* the kind of the exception raised inside the try block
    x_error           \* the kind of the exception that leaves transition_issue

xvars == <<xpc, transitions, transition_name, resolution, transition_id, x_calls,
           x_origin, x_error>>

(***************************************************************************)
(* State of the configuration files and of the calls of load_config        *)
(***************************************************************************)
VARIABLES
    home_exists,   \* ~/.jira/config.yaml exists
    home_file,     \* its lines
    local_exists,  \* ./config.yaml exists
    local_file,    \* its lines
    loads          \* what the calls of load_config gave, in order

cvars == <<home_exists, home_file, local_exists, local_file, loads>>

(***************************************************************************)
(* State of one call of JiraClient.search_issues                           *)
(***************************************************************************)
VARIABLES
    spc,          \* position in search_issues
    remote,       \* the issues that match the query at the remote service, in order
    max_results,  \* parameter: the page size
    start_at,     \* the offset of the next request
    all_issues,   \* the issues collected
    requests      \* the offsets requested, in order

svars == <<spc, remote, max_results, start_at, all_issues, requests>>

vars == <<bvars, avars, tvars, fvars, uvars, xvars, cvars, svars>>

\* what the actions of one component leave alone
nonbulk == <<avars, tvars, fvars, uvars, xvars, cvars, svars>>
nonalias == <<bvars, tvars, fvars, uvars, xvars, cvars, svars>>
nontok == <<bvars, avars, fvars, uvars, xvars, cvars, svars>>
nonlist == <<bvars, avars, tvars, uvars, xvars, cvars, svars>>
nonupdate == <<bvars, avars, tvars, fvars, xvars, cvars, svars>>
nontransition == <<bvars, avars, tvars, fvars, uvars, cvars, svars>>
nonconfig == <<bvars, avars, tvars, fvars, uvars, xvars, svars>>
nonsearch == <<bvars, avars, tvars, fvars, uvars, xvars, cvars>>

IssueKeys == 1..MaxIssues
BatchSizes == 0..MaxBatch

\* bulk_update_batch builds a non-empty fields dict
HasFields == assignee \/ add_labels

AsBatchFullGt(b, size) == Len(b) > size
\* the flush test of the for loop
BatchFull(b, size) == Len(b) >= size

AsHasRemainderNever(b) == FALSE
\* the test for remaining issues after the for loop
HasRemainder(b) == b # <<>>

AsBatchDoneEarly(k, b) == k >= Len(b) - 1
\* exhaustion of the for loop of bulk_update_batch
BatchDone(k, b) == k >= Len(b)

AsUpdatedIncrementOne(b) == 1
\* the amount added to updated and advanced on the progress task
UpdatedIncrement(b) == Len(b)

AsIssueAtReversed(b, k) == b[Len(b) - k]
\* the issue the for loop of bulk_update_batch is at
IssueAt(b, k) == b[k + 1]

\* an entry of the log of calls
Call(op, key, n, items) == [op |-> op, key |-> key, n |-> n, items |-> items]

\* raise JiraApiError(...)
Raise == Call("raise", 0, 0, <<>>)

AsOnBatchErrorRetry == "batch"
\* where an exception of bulk_update_batch takes bulk_update
OnBatchError == "failed"

BulkInit ==
    /\ pc = "search"
    /\ issues \in InjectiveSeqs(IssueKeys, MaxIssues)
    /\ batch_size \in BatchSizes
    /\ status \in BOOLEAN
    /\ assignee \in BOOLEAN
    /\ add_labels \in BOOLEAN
    /\ batch = <<>>
    /\ i = 0
    /\ j = 0
    /\ tdone = FALSE
    /\ updated = 0
    /\ completed = 0
    /\ calls = <<>>
    /\ console = <<>>
    /\ exit_code = -1
    /\ yes \in BOOLEAN
    /\ confirmation = "none"

\* except JiraCliError: print the error, exit(1)
Fail(to) ==
    /\ pc' = to
    /\ IF to = "failed"
          THEN /\ console' = Append(console, [kind |-> "error", n |-> 0])
               /\ exit_code' = 1
          ELSE UNCHANGED <<console, exit_code>>

\* issues = client.search_issues(query)
Search ==
    /\ pc = "search"
    /\ \/ /\ pc' = "confirm"
          /\ UNCHANGED <<console, exit_code, calls>>
       \/ /\ Fail("failed")
          /\ calls' = Append(calls, Raise)
    /\ UNCHANGED <<issues, batch_size, status, assignee, add_labels, batch, i,
                   j, tdone, updated, completed>>
    /\ UNCHANGED <<yes, confirmation>>
    /\ UNCHANGED nonbulk

AsNeedsConfirmNever(y) == FALSE
\* if not yes
NeedsConfirm(y) == ~y

\* if not yes: Confirm.ask(...)
ConfirmStep ==
    /\ pc = "confirm"
    /\ IF NeedsConfirm(yes)
          THEN \E answer \in BOOLEAN :
                  /\ confirmation' = IF answer THEN "confirmed" ELSE "declined"
                  /\ IF answer
                        THEN /\ pc' = "loop"
                             /\ UNCHANGED <<console, exit_code>>
                        ELSE /\ pc' = "cancelled"
                             /\ console' = Append(console, [kind |-> "cancelled", n |-> 0])
                             /\ exit_code' = 0
          ELSE /\ pc' = "loop"
               /\ UNCHANGED <<console, exit_code, confirmation>>
    /\ UNCHANGED <<issues, batch_size, status, assignee, add_labels, batch, i,
                   j, tdone, updated, completed, calls, yes>>
    /\ UNCHANGED nonbulk

\* client.bulk_update_batch(batch, status, assignee, add_labels) is entered
Dispatch(b) ==
    /\ pc' = "batch"
    /\ j' = 0
    /\ tdone' = FALSE
    /\ calls' = Append(calls, Call("dispatch", 0, Len(b), b))

\* one iteration of: for issue in issues: batch.append(issue); if len(batch) >= batch_size: ...
LoopAppend ==
    /\ pc = "loop"
    /\ i < Len(issues)
    /\ i' = i + 1
    /\ batch' = Append(batch, issues[i + 1])
    /\ IF BatchFull(batch', batch_size)
          THEN Dispatch(batch')
          ELSE UNCHANGED <<pc, j, tdone, calls>>
    /\ UNCHANGED <<issues, batch_size, status, assignee, add_labels, updated,
                   completed, console, exit_code>>
    /\ UNCHANGED <<yes, confirmation>>
    /\ UNCHANGED nonbulk

\* the for loop is exhausted: if batch: ... ; then the final print
LoopEnd ==
    /\ pc = "loop"
    /\ i = Len(issues)
    /\ IF HasRemainder(batch)
          THEN /\ Dispatch(batch)
               /\ UNCHANGED <<console, exit_code>>
          ELSE /\ pc' = "done"
               /\ console' = Append(console, [kind |-> "success", n |-> updated])
               /\ exit_code' = 0
               /\ UNCHANGED <<j, tdone, calls>>
    /\ UNCHANGED <<issues, batch_size, status, assignee, add_labels, batch, i,
                   updated, completed>>
    /\ UNCHANGED <<yes, confirmation>>
    /\ UNCHANGED nonbulk

\* if status: self.transition_issue(issue.key, status)
Transition ==
    /\ pc = "batch"
    /\ ~BatchDone(j, batch)
    /\ status
    /\ ~tdone
    /\ \E outcome \in {"ok", "transitions_failed", "not_found", "transition_failed"} :
          /\ calls' = calls
                       \o (IF outcome \in {"ok", "transition_failed"}
                              THEN <<Call("transition", IssueAt(batch, j), 0, <<>>)>>
                              ELSE <<>>)
                       \o (IF outcome = "ok" THEN <<>> ELSE <<Raise>>)
          /\ IF outcome = "ok"
                THEN /\ IF HasFields
                           THEN /\ tdone' = TRUE
                                /\ j' = j
                           ELSE /\ tdone' = FALSE
                                /\ j' = j + 1
                     /\ UNCHANGED <<pc, console, exit_code>>
                ELSE /\ Fail(OnBatchError)
                     /\ UNCHANGED <<j, tdone>>
    /\ UNCHANGED <<issues, batch_size, status, assignee, add_labels, batch, i,
                   updated, completed>>
    /\ UNCHANGED <<yes, confirmation>>
    /\ UNCHANGED nonbulk

\* if fields: self.update_issue(issue.key, fields)
Update ==
    /\ pc = "batch"
    /\ ~BatchDone(j, batch)
    /\ HasFields
    /\ status => tdone
    /\ \E outcome \in {"ok", "issue_failed", "update_failed"} :
          /\ calls' = calls
                       \o (IF outcome \in {"ok", "update_failed"}
                              THEN <<Call("update", IssueAt(batch, j), 0, <<>>)>>
                              ELSE <<>>)
                       \o (IF outcome = "ok" THEN <<>> ELSE <<Raise>>)
          /\ IF outcome = "ok"
                THEN /\ tdone' = FALSE
                     /\ j' = j + 1
                     /\ UNCHANGED <<pc, console, exit_code>>
                ELSE /\ Fail(OnBatchError)
                     /\ UNCHANGED <<j, tdone>>
    /\ UNCHANGED <<issues, batch_size, status, assignee, add_labels, batch, i,
                   updated, completed>>
    /\ UNCHANGED <<yes, confirmation>>
    /\ UNCHANGED nonbulk

\* an issue of the batch when neither status nor fields are given
Skip ==
    /\ pc = "batch"
    /\ ~BatchDone(j, batch)
    /\ ~status
    /\ ~HasFields
    /\ j' = j + 1
    /\ UNCHANGED <<pc, issues, batch_size, status, assignee, add_labels, batch,
                   i, tdone, updated, completed, calls, console, exit_code>>
    /\ UNCHANGED <<yes, confirmation>>
    /\ UNCHANGED nonbulk

\* bulk_update_batch returns: updated += len(batch); progress.update(advance=len(batch)); batch = []
BatchReturn ==
    /\ pc = "batch"
    /\ BatchDone(j, batch)
    /\ updated' = updated + UpdatedIncrement(batch)
    /\ completed' = completed + UpdatedIncrement(batch)
    /\ calls' = Append(calls, Call("advance", 0, UpdatedIncrement(batch), <<>>))
    /\ batch' = <<>>
    /\ j' = 0
    /\ pc' = "loop"
    /\ UNCHANGED <<issues, batch_size, status, assignee, add_labels, i, tdone,
                   console, exit_code>>
    /\ UNCHANGED <<yes, confirmation>>
    /\ UNCHANGED nonbulk

\* a user-level interrupt terminates the process
Interrupt ==
    /\ pc \in {"search", "confirm", "loop", "batch"}
    /\ pc' = "interrupted"
    /\ exit_code' = 130
    /\ UNCHANGED <<issues, batch_size, status, assignee, add_labels, batch, i,
                   j, tdone, updated, completed, calls, console>>
    /\ UNCHANGED <<yes, confirmation>>
    /\ UNCHANGED nonbulk

(***************************************************************************)
(* Strings are sequences of one-character strings                          *)
(***************************************************************************)
MaxAliases == 2
MaxValLen == 2
MaxDepth == 4

\* None, told apart from every string
None == <<"None">>

cmd_run == <<"r", "u", "n">>
cmd_view == <<"v", "i", "e", "w">>
cmd_bulk_update == <<"b", "u", "l", "k", "-", "u", "p", "d", "a", "t", "e">>
cmd_watch == <<"w", "a", "t", "c", "h">>
cmd_velocity == <<"v", "e", "l", "o", "c", "i", "t", "y">>
cmd_sprint == <<"s", "p", "r", "i", "n", "t">>
cmd_fields == <<"f", "i", "e", "l", "d", "s">>
cmd_update == <<"u", "p", "d", "a", "t", "e">>
cmd_comment == <<"c", "o", "m", "m", "e", "n", "t">>
cmd_export == <<"e", "x", "p", "o", "r", "t">>
cmd_attach == <<"a", "t", "t", "a", "c", "h">>
cmd_log == <<"l", "o", "g">>
cmd_list == <<"l", "i", "s", "t">>
cmd_create == <<"c", "r", "e", "a", "t", "e">>
cmd_transitions == <<"t", "r", "a", "n", "s", "i", "t", "i", "o", "n", "s">>
cmd_transition == <<"t", "r", "a", "n", "s", "i", "t", "i", "o", "n">>
cmd_link == <<"l", "i", "n", "k">>
cmd_my == <<"m", "y">>
alias_todo == <<"t", "o", "d", "o">>
alias_inprog == <<"i", "n", "p", "r", "o", "g">>
alias_done == <<"d", "o", "n", "e">>
alias_blocked == <<"b", "l", "o", "c", "k", "e", "d">>
alias_review == <<"r", "e", "v", "i", "e", "w">>
alias_recent == <<"r", "e", "c", "e", "n", "t">>
tpl_my ==
    <<"l", "i", "s", "t", " ", "-", "-", "a", "s", "s", "i", "g", "n", "e",
      "e", "=", "\"", "c", "u", "r", "r", "e", "n", "t", "U", "s", "e", "r",
      "(", ")", "\"">>
tpl_todo ==
    <<"l", "i", "s", "t", " ", "-", "-", "s", "t", "a", "t", "u", "s", "=",
      "\"", "T", "o", " ", "D", "o", "\"">>
tpl_inprog ==
    <<"l", "i", "s", "t", " ", "-", "-", "s", "t", "a", "t", "u", "s", "=",
      "\"", "I", "n", " ", "P", "r", "o", "g", "r", "e", "s", "s", "\"">>
tpl_done ==
    <<"l", "i", "s", "t", " ", "-", "-", "s", "t", "a", "t", "u", "s", "=",
      "\"", "D", "o", "n", "e", "\"">>
tpl_blocked ==
    <<"l", "i", "s", "t", " ", "-", "-", "s", "t", "a", "t", "u", "s", "=",
      "\"", "B", "l", "o", "c", "k", "e", "d", "\"">>
tpl_review ==
    <<"l", "i", "s", "t", " ", "-", "-", "s", "t", "a", "t", "u", "s", "=",
      "\"", "I", "n", " ", "R", "e", "v", "i", "e", "w", "\"">>
tpl_recent ==
    <<"l", "i", "s", "t", " ", "\"", "u", "p", "d", "a", "t", "e", "d", " ",
      ">", "=", " ", "-", "7", "d", "\"">>

alias_a == <<"a">>
alias_b == <<"b">>
name_zz == <<"z", "z">>
arg_x == <<"x">>
arg_y == <<"y">>
arg_v == <<"-", "-", "v">>
opt_o == <<"-", "-", "o">>
opt_status == <<"-", "-", "s", "t", "a", "t", "u", "s">>
val_to_do == <<"T", "o", " ", "D", "o">>

\* the commands registered before the aliases, and after them
BuiltinsBefore == {cmd_run}
BuiltinsAfter ==
    {cmd_view, cmd_bulk_update, cmd_watch, cmd_velocity, cmd_sprint,
     cmd_fields, cmd_update, cmd_comment, cmd_export, cmd_attach, cmd_log,
     cmd_list, cmd_create, cmd_transitions, cmd_transition, cmd_link, cmd_my}

\* the configuration load_config writes when there is none
default_config ==
    (alias_todo :> tpl_todo) @@ (cmd_my :> tpl_my) @@
    (alias_inprog :> tpl_inprog) @@ (alias_done :> tpl_done) @@
    (alias_blocked :> tpl_blocked) @@ (alias_review :> tpl_review) @@
    (alias_recent :> tpl_recent)

\* cli.command(name=...) adds or replaces the entry of that name
Register(table, names, kind) ==
    [n \in DOMAIN table \cup names |-> IF n \in names THEN kind ELSE table[n]]

\* cli.commands after the module is imported: run, then the aliases, then the rest
CommandTable(aliases) ==
    Register(Register(Register(<<>>, BuiltinsBefore, "builtin"),
                      DOMAIN aliases, "alias"),
             BuiltinsAfter, "builtin")

\* aliases.get(alias_name)
get_alias_command(aliases, alias_name) ==
    IF alias_name \in DOMAIN aliases THEN aliases[alias_name] ELSE None

\* if alias_command:
Truthy(alias_command) == alias_command # None /\ alias_command # <<>>

AsIsSplitCharAlways(char, in_quotes) == char = " "
\* elif char == ' ' and not in_quotes
IsSplitChar(char, in_quotes) == char = " " /\ ~in_quotes

\* the for loop over the characters and the final flush
RECURSIVE TokenizeFrom(_, _, _, _)
TokenizeFrom(s, parts, current_part, in_quotes) ==
    IF s = <<>>
       THEN IF current_part # <<>> THEN Append(parts, current_part) ELSE parts
       ELSE LET char == Head(s) IN
            IF char = "\""
               THEN TokenizeFrom(Tail(s), parts, Append(current_part, char), ~in_quotes)
               ELSE IF IsSplitChar(char, in_quotes)
                       THEN TokenizeFrom(Tail(s),
                                IF current_part # <<>> THEN Append(parts, current_part)
                                                       ELSE parts,
                                <<>>, in_quotes)
                       ELSE TokenizeFrom(Tail(s), parts, Append(current_part, char), in_quotes)

Tokenize(s) == TokenizeFrom(s, <<>>, <<>>, FALSE)

\* str.strip('"')
RECURSIVE LStrip(_)
LStrip(s) == IF s # <<>> /\ Head(s) = "\"" THEN LStrip(Tail(s)) ELSE s

RECURSIVE RStrip(_)
RStrip(s) ==
    IF s # <<>> /\ s[Len(s)] = "\"" THEN RStrip(SubSeq(s, 1, Len(s) - 1)) ELSE s

AsStripNothing(s) == s
AsStripOneLayer(s) ==
    IF Len(s) >= 2 /\ s[1] = "\"" /\ s[Len(s)] = "\"" THEN SubSeq(s, 2, Len(s) - 1) ELSE s
Strip(s) == RStrip(LStrip(s))

\* arg.startswith('--')
StartsWithDashes(arg) == Len(arg) >= 2 /\ arg[1] = "-" /\ arg[2] = "-"

\* '=' in arg
HasEquals(arg) == \E k \in 1..Len(arg) : arg[k] = "="

\* arg.split('=', 1)
SplitEquals(arg) ==
    LET k == CHOOSE m \in 1..Len(arg) :
                 arg[m] = "=" /\ \A q \in 1..(m - 1) : arg[q] # "="
    IN  <<SubSeq(arg, 1, k - 1), SubSeq(arg, k + 1, Len(arg))>>

\* the formatting of the arguments of the list command
RECURSIVE FormatArgs(_)
FormatArgs(command_args) ==
    IF command_args = <<>> THEN <<>>
    ELSE LET arg == Head(command_args) IN
         (IF StartsWithDashes(arg)
             THEN IF HasEquals(arg)
                     THEN <<SplitEquals(arg)[1], Strip(SplitEquals(arg)[2])>>
                     ELSE <<arg>>
             ELSE <<Strip(arg)>>)
         \o FormatArgs(Tail(command_args))

AsExtendArgsInFront(command_args, extra) == extra \o command_args
AsExtendArgsReversed(command_args, extra) ==
    command_args \o [k \in 1..Len(extra) |-> extra[Len(extra) + 1 - k]]
\* command_args.extend(args)
ExtendArgs(command_args, extra) == command_args \o extra

AsFormatsArgsAlways(command_name) == TRUE
\* if command_name == 'list'
FormatsArgs(command_name) == command_name = cmd_list

\* an argument the option parser of a command takes for an option
OptionLike(arg) == Len(arg) >= 2 /\ arg[1] = "-"

(***************************************************************************)
(* The configurations and invocations explored                             *)
(***************************************************************************)
SeqsUpTo(S, n) == UNION {[1..k -> S] : k \in 0..n}

OptTemplate(opt, val) == cmd_list \o <<" ">> \o opt \o <<"=", "\"">> \o val \o <<"\"">>

OptNames == {opt_o, opt_status}
OptValues == SeqsUpTo({"a", " "}, MaxValLen) \cup {val_to_do}

AliasPool == {alias_a, alias_b, cmd_run}

\* a marker for the n-th extra argument, as a template may hold it
marker_1 == <<"$", "1">>
marker_2 == <<"$", "2">>

TemplatePool ==
    {cmd_list, alias_a, alias_b, name_zz,
     cmd_run \o <<" ">> \o alias_b,
     alias_b \o <<" ">> \o arg_v,
     cmd_list \o <<" ", "\"", "x", " ", "y", "\"">>,
     cmd_view \o <<" ", "\"", "x", " ", "y", "\"">>,
     <<>>, <<" ">>,
     cmd_view \o <<" ">> \o opt_o \o <<"=", "\"", "a", " ", "a", "\"">>,
     cmd_list \o <<" ", "\"", "\"", "x", "\"", "\"", " ">> \o arg_v,
     cmd_view \o <<" ">> \o marker_1,
     cmd_list \o <<" ">> \o marker_1 \o <<" ">> \o marker_2}
    \cup {OptTemplate(opt_o, val) : val \in SeqsUpTo({"a", " "}, MaxValLen)}

Configs ==
    {default_config} \cup
    UNION {[S -> TemplatePool] : S \in {T \in SUBSET AliasPool : Cardinality(T) <= MaxAliases}}

ArgLists == {<<>>, <<arg_x>>, <<arg_v>>, <<arg_y, arg_x>>}

AliasInit ==
    /\ config \in Configs
    /\ startup_aliases = config
    /\ commands = CommandTable(startup_aliases)
    /\ \E name \in DOMAIN config \cup {cmd_list, name_zz}, a \in ArgLists :
          invocation = [name |-> name, args |-> a]
    /\ dpc = "run"
    /\ command_or_alias = invocation.name
    /\ args = invocation.args
    /\ target = None
    /\ target_args = <<>>
    /\ depth = 1
    /\ resolved = None
    /\ expansions = <<>>
    /\ invoked = <<>>

\* cli.commands[name].main(args=..., standalone_mode=False) is called
CallMain(name, a) ==
    /\ invoked' = Append(invoked, [name |-> name, args |-> a])
    /\ target' = name
    /\ target_args' = a
    /\ dpc' = "main"

\* raise click.UsageError(f"Unknown command: ...")
UnknownCommand ==
    /\ dpc' = "usage_error"
    /\ UNCHANGED <<invoked, target, target_args>>

\* the body of run(command_or_alias, args)
Run ==
    /\ dpc = "run"
    /\ LET alias_command == get_alias_command(config, command_or_alias) IN
       IF Truthy(alias_command)
          THEN LET parts == Tokenize(alias_command) IN
               IF parts = <<>>
                  THEN /\ dpc' = "index_error"
                       /\ UNCHANGED <<invoked, target, target_args, resolved, expansions>>
                  ELSE LET command_name == parts[1]
                           command_args == ExtendArgs(Tail(parts), args)
                       IN  /\ resolved' = command_name
                           /\ expansions' = Append(expansions,
                                  [alias |-> command_or_alias, first |-> command_name,
                                   template |-> alias_command,
                                   tokens |-> <<command_name>> \o command_args])
                           /\ IF command_name \in DOMAIN commands
                                 THEN CallMain(command_name,
                                          IF FormatsArgs(command_name)
                                             THEN FormatArgs(command_args)
                                             ELSE command_args)
                                 ELSE UnknownCommand
          ELSE /\ resolved' = command_or_alias
               /\ UNCHANGED expansions
               /\ IF command_or_alias \in DOMAIN commands
                     THEN CallMain(command_or_alias, args)
                     ELSE UnknownCommand
    /\ UNCHANGED <<config, startup_aliases, commands, invocation, command_or_alias, args, depth>>
    /\ UNCHANGED nonalias

\* ctx.invoke(run, command_or_alias=..., args=...), as deep as the interpreter allows
InvokeRun(name, a) ==
    IF depth < MaxDepth
       THEN /\ dpc' = "run"
            /\ command_or_alias' = name
            /\ args' = a
            /\ depth' = depth + 1
       ELSE /\ dpc' = "recursion_error"
            /\ UNCHANGED <<command_or_alias, args, depth>>

\* main of a command made by create_alias_command: it declares no options
AliasCommandMain ==
    /\ dpc = "main"
    /\ commands[target] = "alias"
    /\ IF \E k \in 1..Len(target_args) : OptionLike(target_args[k])
          THEN /\ dpc' = "usage_error"
               /\ UNCHANGED <<command_or_alias, args, depth>>
          ELSE InvokeRun(target, target_args)
    /\ UNCHANGED <<config, startup_aliases, commands, invocation, target, target_args, resolved,
                   expansions, invoked>>
    /\ UNCHANGED nonalias

\* main of the run command itself: command_or_alias, then args
RunCommandMain ==
    /\ dpc = "main"
    /\ commands[target] = "builtin"
    /\ target = cmd_run
    /\ IF target_args = <<>> \/ \E k \in 1..Len(target_args) : OptionLike(target_args[k])
          THEN /\ dpc' = "usage_error"
               /\ UNCHANGED <<command_or_alias, args, depth>>
          ELSE InvokeRun(Head(target_args), Tail(target_args))
    /\ UNCHANGED <<config, startup_aliases, commands, invocation, target, target_args, resolved,
                   expansions, invoked>>
    /\ UNCHANGED nonalias

\* main of any other built-in command: its handler takes over
BuiltinMain ==
    /\ dpc = "main"
    /\ commands[target] = "builtin"
    /\ target # cmd_run
    /\ dpc' = "dispatched"
    /\ UNCHANGED <<config, startup_aliases, commands, invocation, command_or_alias, args, target,
                   target_args, depth, resolved, expansions, invoked>>
    /\ UNCHANGED nonalias

AliasNext ==
    \/ Run
    \/ AliasCommandMain
    \/ RunCommandMain
    \/ BuiltinMain

\* the templates a rewritten configuration file gives an alias
ReloadTemplates == {cmd_view, alias_b}

\* the configuration file is rewritten while the process runs
ConfigFileChanges ==
    /\ dpc \in {"run", "main"}
    /\ config = startup_aliases
    /\ \E n \in DOMAIN config, t \in ReloadTemplates :
          /\ config[n] # t
          /\ config' = [config EXCEPT ![n] = t]
    /\ UNCHANGED <<startup_aliases, commands, invocation, dpc, command_or_alias, args,
                   target, target_args, depth, resolved, expansions, invoked>>
    /\ UNCHANGED nonalias

ReloadNext ==
    \/ AliasNext
    \/ ConfigFileChanges

\* the exit status click gives a UsageError at the top level
UsageErrorExit == 2

\* the exit status of the process when the dispatch ends outside a handler
ExitStatus ==
    CASE dpc = "usage_error" -> UsageErrorExit
      [] dpc \in {"index_error", "recursion_error"} -> 1
      [] OTHER -> -1

(***************************************************************************)
(* The list command                                                        *)
(***************************************************************************)
str_project_eq == <<"p", "r", "o", "j", "e", "c", "t", " ", "=", " ">>
str_assignee_eq == <<"a", "s", "s", "i", "g", "n", "e", "e", " ", "=", " ">>
str_status_eq == <<"s", "t", "a", "t", "u", "s", " ", "=", " ">>
str_and == <<" ", "A", "N", "D", " ">>
str_default ==
    <<"a", "s", "s", "i", "g", "n", "e", "e", " ", "=", " ", "c", "u", "r",
      "r", "e", "n", "t", "U", "s", "e", "r", "(", ")">>
val_X == <<"X">>
val_E == <<"E">>
val_bob == <<"b", "o", "b">>
val_currentUser ==
    <<"c", "u", "r", "r", "e", "n", "t", "U", "s", "e", "r", "(", ")">>
val_Done == <<"D", "o", "n", "e">>
val_In_Progress == <<"I", "n", " ", "P", "r", "o", "g", "r", "e", "s", "s">>
val_q == <<"q">>
val_q_or == <<"a", " ", "O", "R", " ", "b">>

\* the values the options and the environment variable are given
Projects == {None, <<>>, val_X}
Assignees == {None, <<>>, val_bob, val_currentUser}
Statuses == {None, <<>>, val_Done, val_In_Progress}
Queries == {<<>>, val_q, val_q_or}
EnvProjects == {None, <<>>, val_E}

\* the truth value of an optional string
NonEmpty(v) == v # None /\ v # <<>>

AsProjectToUseEnvFirst(p, env) == IF NonEmpty(env) THEN env ELSE p
\* project or os.getenv('JIRA_DEFAULT_PROJECT')
ProjectToUse(p, env) == IF NonEmpty(p) THEN p ELSE env

AsNeedsDefaultWithoutQuery(q, conds) == q = <<>>
\* elif not conditions (after: if query)
NeedsDefault(q, conds) == q = <<>> /\ conds = <<>>

AsBuildConditionsStatusFirst(p, env, a, st, q) ==
    (IF NonEmpty(ProjectToUse(p, env))
        THEN <<str_project_eq \o ProjectToUse(p, env)>> ELSE <<>>)
    \o (IF NonEmpty(st) THEN <<str_status_eq \o <<"'">> \o st \o <<"'">>>> ELSE <<>>)
    \o (IF NonEmpty(a) THEN <<str_assignee_eq \o a>> ELSE <<>>)
    \o (IF q # <<>> THEN <<<<"(">> \o q \o <<")">>>> ELSE <<>>)
\* the clauses appended before the default is considered
BuildConditions(p, env, a, st, q) ==
    (IF NonEmpty(ProjectToUse(p, env))
        THEN <<str_project_eq \o ProjectToUse(p, env)>> ELSE <<>>)
    \o (IF NonEmpty(a) THEN <<str_assignee_eq \o a>> ELSE <<>>)
    \o (IF NonEmpty(st) THEN <<str_status_eq \o <<"'">> \o st \o <<"'">>>> ELSE <<>>)
    \o (IF q # <<>> THEN <<<<"(">> \o q \o <<")">>>> ELSE <<>>)

\* " AND ".join(conditions)
RECURSIVE JoinAnd(_)
JoinAnd(conds) ==
    IF conds = <<>> THEN <<>>
    ELSE IF Len(conds) = 1 THEN conds[1]
    ELSE conds[1] \o str_and \o JoinAnd(Tail(conds))

AsMyKwargsWithoutAssignee(st) == [assignee |-> None, status |-> st]
\* the keyword arguments my gives to ctx.invoke(list, ...)
MyKwargs(st) == [assignee |-> val_currentUser, status |-> st]

\* the options of list that my cannot set stand at their declared defaults
ListInit ==
    /\ list_cmd \in {"list", "my"}
    /\ lpc = IF list_cmd = "my" THEN "my" ELSE "build"
    /\ project \in IF list_cmd = "my" THEN {None} ELSE Projects
    /\ list_assignee \in IF list_cmd = "my" THEN {None} ELSE Assignees
    /\ list_status \in Statuses
    /\ query \in IF list_cmd = "my" THEN {<<>>} ELSE Queries
    /\ JIRA_DEFAULT_PROJECT \in EnvProjects
    /\ conditions = <<>>
    /\ jql = None
    /\ list_console = <<>>
    /\ list_exit = -1

\* my: ctx.invoke(list, assignee='currentUser()', status=status)
My ==
    /\ lpc = "my"
    /\ list_assignee' = MyKwargs(list_status).assignee
    /\ list_status' = MyKwargs(list_status).status
    /\ lpc' = "build"
    /\ UNCHANGED <<list_cmd, project, query, JIRA_DEFAULT_PROJECT, conditions, jql,
                   list_console, list_exit>>
    /\ UNCHANGED nonlist

\* the construction of jql from the options
BuildJql ==
    /\ lpc = "build"
    /\ LET built == BuildConditions(project, JIRA_DEFAULT_PROJECT, list_assignee,
                                    list_status, query)
       IN  /\ conditions' = IF NeedsDefault(query, built)
                               THEN Append(built, str_default) ELSE built
           /\ jql' = JoinAnd(conditions')
    /\ lpc' = "search"
    /\ UNCHANGED <<list_cmd, project, list_assignee, list_status, query,
                   JIRA_DEFAULT_PROJECT, list_console, list_exit>>
    /\ UNCHANGED nonlist

\* issues = client.search_issues(jql) and what list does with the outcome
SearchAndPrint ==
    /\ lpc = "search"
    /\ \E outcome \in {"issues", "no_issues", "JiraCliError", "Exception"} :
          /\ lpc' = IF outcome \in {"issues", "no_issues"} THEN "returned" ELSE "exited"
          /\ list_console' = Append(list_console,
                 CASE outcome = "issues" -> "table"
                   [] outcome = "no_issues" -> "No issues found matching the criteria"
                   [] outcome = "JiraCliError" -> "error"
                   [] outcome = "Exception" -> "An unexpected error occurred")
          /\ list_exit' = IF outcome \in {"issues", "no_issues"} THEN 0 ELSE 1
    /\ UNCHANGED <<list_cmd, project, list_assignee, list_status, query,
                   JIRA_DEFAULT_PROJECT, conditions, jql>>
    /\ UNCHANGED nonlist

ListNext ==
    \/ My
    \/ BuildJql
    \/ SearchAndPrint

ListIdle ==
    /\ list_cmd = "none"
    /\ lpc = "idle"
    /\ project = None
    /\ list_assignee = None
    /\ list_status = None
    /\ query = <<>>
    /\ JIRA_DEFAULT_PROJECT = None
    /\ conditions = <<>>
    /\ jql = None
    /\ list_console = <<>>
    /\ list_exit = -1

(***************************************************************************)
(* The tokenizer of run applied to a string                                *)
(***************************************************************************)
MaxTokLen == 5

\* the characters of the strings explored: a letter, the space, the double
\* quote, the tab and the newline
TokChars == {"a", " ", "\"", "\t", "\n"}

TokInit ==
    /\ tpc = "input"
    /\ tok_string \in SeqsUpTo(TokChars, MaxTokLen)
    /\ tok_parts = <<>>

\* the for loop over alias_command and the flush after it
SplitAliasCommand ==
    /\ tpc = "input"
    /\ tok_parts' = Tokenize(tok_string)
    /\ tpc' = "done"
    /\ UNCHANGED tok_string
    /\ UNCHANGED nontok

TokNext ==
    \/ SplitAliasCommand

TokIdle ==
    /\ tpc = "idle"
    /\ tok_string = <<>>
    /\ tok_parts = <<>>

(***************************************************************************)
(* The update command                                                      *)
(***************************************************************************)
UpdateOptions == {"status", "assignee", "priority", "labels"}

UpdateInit ==
    /\ upc = "confirm"
    /\ update_yes \in BOOLEAN
    /\ update_options \in SUBSET UpdateOptions
    /\ update_confirmation = "none"
    /\ update_calls = <<>>
    /\ update_console = <<>>
    /\ update_exit = -1

\* if not yes: Confirm.ask(...), "Operation cancelled" on a refusal
UpdateConfirm ==
    /\ upc = "confirm"
    /\ IF NeedsConfirm(update_yes)
          THEN \E answer \in BOOLEAN :
                  /\ update_confirmation' = IF answer THEN "confirmed" ELSE "declined"
                  /\ IF answer
                        THEN /\ upc' = "update"
                             /\ UNCHANGED <<update_console, update_exit>>
                        ELSE /\ upc' = "cancelled"
                             /\ update_console' = Append(update_console, "Operation cancelled")
                             /\ update_exit' = 0
          ELSE /\ upc' = "update"
               /\ UNCHANGED <<update_confirmation, update_console, update_exit>>
    /\ UNCHANGED <<update_yes, update_options, update_calls>>
    /\ UNCHANGED nonupdate

\* client.update_issue(issue_key, fields): the issue is fetched, then updated
\* with the fields built from the options (also when there are none)
UpdateIssue ==
    /\ upc = "update"
    /\ \E outcome \in {"ok", "fetch_error", "update_error"} :
          /\ update_calls' =
                IF outcome = "fetch_error"
                   THEN Append(update_calls, [op |-> "issue", fields |-> {}])
                   ELSE update_calls \o <<[op |-> "issue", fields |-> {}],
                                          [op |-> "update", fields |-> update_options]>>
          /\ upc' = IF outcome = "ok" THEN "done" ELSE "failed"
          /\ update_console' = Append(update_console,
                                      IF outcome = "ok" THEN "Updated issue" ELSE "error")
          /\ update_exit' = IF outcome = "ok" THEN 0 ELSE 1
    /\ UNCHANGED <<update_yes, update_options, update_confirmation>>
    /\ UNCHANGED nonupdate

UpdateNext ==
    \/ UpdateConfirm
    \/ UpdateIssue

UpdateIdle ==
    /\ upc = "idle"
    /\ update_yes = FALSE
    /\ update_options = {}
    /\ update_confirmation = "none"
    /\ update_calls = <<>>
    /\ update_console = <<>>
    /\ update_exit = -1

(***************************************************************************)
(* JiraClient.transition_issue                                             *)
(***************************************************************************)
MaxTransitions == 2

name_Go == <<"G", "o">>
name_go == <<"g", "o">>
name_GO == <<"G", "O">>
name_Up == <<"U", "p">>
val_Fixed == <<"F", "i", "x", "e", "d">>

\* str.lower() on the letters used
LowerChar(c) ==
    CASE c = "G" -> "g" [] c = "O" -> "o" [] c = "U" -> "u" [] c = "Z" -> "z"
      [] OTHER -> c

Lower(str) == [k \in 1..Len(str) |-> LowerChar(str[k])]

\* the ids the remote service gives the transitions: non-empty strings
TransitionIds == << <<"1", "1">>, <<"2", "1">>, <<"3", "1">>, <<"4", "1">> >>

\* the transitions of an issue: the k-th has the k-th id
TransitionLists ==
    {[k \in 1..Len(names) |-> [name |-> names[k], id |-> TransitionIds[k]]] :
        names \in SeqsUpTo({name_Go, name_go, name_Up}, MaxTransitions)}

\* t['name'].lower() == transition_name.lower()
Matches(t, wanted) == Lower(t.name) = Lower(wanted)

\* the for loop with its break: the id of the first transition that matches
RECURSIVE FirstMatch(_, _)
FirstMatch(ts, wanted) ==
    IF ts = <<>> THEN None
    ELSE IF Matches(Head(ts), wanted) THEN Head(ts).id
    ELSE FirstMatch(Tail(ts), wanted)

\* except Exception as e: raise JiraApiError(...)
ExceptException(kind) == "JiraApiError"

TransitionInit ==
    /\ xpc = "get"
    /\ transitions \in TransitionLists
    /\ transition_name \in {name_go, name_GO, name_Up, <<"Z", "z">>}
    /\ resolution \in {None, val_Fixed}
    /\ transition_id = None
    /\ x_calls = <<>>
    /\ x_origin = "none"
    /\ x_error = "none"

\* transitions = self.get_transitions(issue_key)
GetTransitions ==
    /\ xpc = "get"
    /\ x_calls' = Append(x_calls, [op |-> "transitions", id |-> None, fields |-> {}])
    /\ \/ /\ xpc' = "find"
          /\ UNCHANGED <<x_origin, x_error>>
       \/ /\ xpc' = "raised"
          /\ x_origin' = "JiraApiError"
          /\ x_error' = ExceptException("JiraApiError")
    /\ UNCHANGED <<transitions, transition_name, resolution, transition_id>>
    /\ UNCHANGED nontransition

\* the search for the transition and the raise when there is none
FindTransition ==
    /\ xpc = "find"
    /\ transition_id' = FirstMatch(transitions, transition_name)
    /\ IF transition_id' = None
          THEN /\ xpc' = "raised"
               /\ x_origin' = "ValidationError"
               /\ x_error' = ExceptException("ValidationError")
          ELSE /\ xpc' = "send"
               /\ UNCHANGED <<x_origin, x_error>>
    /\ UNCHANGED <<transitions, transition_name, resolution, x_calls>>
    /\ UNCHANGED nontransition

\* self.client.transition_issue(issue_key, transition_id, fields=fields)
SendTransition ==
    /\ xpc = "send"
    /\ x_calls' = Append(x_calls,
                         [op |-> "transition_issue", id |-> transition_id,
                          fields |-> IF NonEmpty(resolution) THEN {"resolution"} ELSE {}])
    /\ \/ /\ xpc' = "done"
          /\ UNCHANGED <<x_origin, x_error>>
       \/ /\ xpc' = "raised"
          /\ x_origin' = "Exception"
          /\ x_error' = ExceptException("Exception")
    /\ UNCHANGED <<transitions, transition_name, resolution, transition_id>>
    /\ UNCHANGED nontransition

TransitionNext ==
    \/ GetTransitions
    \/ FindTransition
    \/ SendTransition

TransitionIdle ==
    /\ xpc = "idle"
    /\ transitions = <<>>
    /\ transition_name = None
    /\ resolution = None
    /\ transition_id = None
    /\ x_calls = <<>>
    /\ x_origin = "none"
    /\ x_error = "none"

(***************************************************************************)
(* load_config and the configuration files                                 *)
(***************************************************************************)
MaxLoads == 3

AsDumpNothing(mapping) == {}
\* yaml.safe_dump of the aliases: one line per alias, the name and the template
Dump(mapping) == {<<n, mapping[n]>> : n \in DOMAIN mapping}

\* yaml.safe_load(f) or {}: the mapping the lines stand for
Load(lines) ==
    [n \in {l[1] : l \in lines} |-> (CHOOSE l \in lines : l[1] = n)[2]]

\* the mappings a configuration file found at start may hold
StoredConfigs ==
    {default_config} \cup
    UNION {[S -> TemplatePool] : S \in {T \in SUBSET AliasPool : Cardinality(T) <= 1}}

\* get_config_path: the home file when it exists, else the local file when it
\* exists, else the home file
ConfigPath(home, local) ==
    IF home THEN "home" ELSE IF local THEN "local" ELSE "home"

ConfigInit ==
    /\ home_exists \in BOOLEAN
    /\ home_file \in IF home_exists THEN {Dump(c) : c \in StoredConfigs} ELSE {{}}
    /\ local_exists \in BOOLEAN
    /\ local_file \in IF local_exists THEN {Dump(c) : c \in {default_config, <<>>,
                                                              (alias_a :> cmd_list)}}
                                        ELSE {{}}
    /\ loads = <<>>

\* load_config(): the file is created with the default aliases when it does
\* not exist; any exception becomes ConfigurationError
LoadConfig ==
    /\ Len(loads) < MaxLoads
    /\ LET path == ConfigPath(home_exists, local_exists)
           exists == IF path = "home" THEN home_exists ELSE local_exists
       IN  IF ~exists
              THEN \/ /\ home_exists' = TRUE
                      /\ home_file' = Dump(default_config)
                      /\ loads' = Append(loads, [ok |-> TRUE, created |-> TRUE,
                                                 value |-> default_config])
                   \/ /\ loads' = Append(loads, [ok |-> FALSE, created |-> FALSE,
                                                 value |-> <<>>])
                      /\ UNCHANGED <<home_exists, home_file>>
              ELSE /\ \/ loads' = Append(loads,
                              [ok |-> TRUE, created |-> FALSE,
                               value |-> Load(IF path = "home" THEN home_file
                                                               ELSE local_file)])
                      \/ loads' = Append(loads, [ok |-> FALSE, created |-> FALSE,
                                                 value |-> <<>>])
                   /\ UNCHANGED <<home_exists, home_file>>
    /\ UNCHANGED <<local_exists, local_file>>
    /\ UNCHANGED nonconfig

ConfigNext ==
    \/ LoadConfig

ConfigIdle ==
    /\ home_exists = FALSE
    /\ home_file = {}
    /\ local_exists = FALSE
    /\ local_file = {}
    /\ loads = <<>>

(***************************************************************************)
(* JiraClient.search_issues                                                *)
(***************************************************************************)
MaxPage == 3

\* what the remote service gives for startAt and maxResults
Page(all, start, size) ==
    SubSeq(all, start + 1, IF start + size <= Len(all) THEN start + size ELSE Len(all))

AsLastPageOrFull(results, size) == Len(results) <= size
\* if len(results) < max_results: break
LastPage(results, size) == Len(results) < size

AsNextStartByOne(start, size) == start + 1
\* start_at += max_results
NextStart(start, size) == start + size

SearchInit ==
    /\ spc = "request"
    /\ remote \in InjectiveSeqs(IssueKeys, MaxIssues)
    /\ max_results \in 1..MaxPage
    /\ start_at = 0
    /\ all_issues = <<>>
    /\ requests = <<>>

\* one turn of the while loop: the request and what follows from its result
RequestPage ==
    /\ spc = "request"
    /\ requests' = Append(requests, start_at)
    /\ \/ LET results == Page(remote, start_at, max_results) IN
          IF results = <<>>
             THEN /\ spc' = "returned"
                  /\ UNCHANGED <<all_issues, start_at>>
             ELSE /\ all_issues' = all_issues \o results
                  /\ IF LastPage(results, max_results)
                        THEN /\ spc' = "returned"
                             /\ UNCHANGED start_at
                        ELSE /\ spc' = "request"
                             /\ start_at' = NextStart(start_at, max_results)
       \/ /\ spc' = "failed"
          /\ UNCHANGED <<all_issues, start_at>>
    /\ UNCHANGED <<remote, max_results>>
    /\ UNCHANGED nonsearch

SearchNext ==
    \/ RequestPage

SearchIdle ==
    /\ spc = "idle"
    /\ remote = <<>>
    /\ max_results = 0
    /\ start_at = 0
    /\ all_issues = <<>>
    /\ requests = <<>>

\* the other components at rest
BulkIdle ==
    /\ pc = "idle"
    /\ issues = <<>>
    /\ batch_size = 0
    /\ status = FALSE
    /\ assignee = FALSE
    /\ add_labels = FALSE
    /\ batch = <<>>
    /\ i = 0
    /\ j = 0
    /\ tdone = FALSE
    /\ updated = 0
    /\ completed = 0
    /\ calls = <<>>
    /\ console = <<>>
    /\ exit_code = -1
    /\ yes = FALSE
    /\ confirmation = "none"

AliasIdle ==
    /\ config = <<>>
    /\ startup_aliases = <<>>
    /\ commands = <<>>
    /\ invocation = None
    /\ dpc = "idle"
    /\ command_or_alias = None
    /\ args = <<>>
    /\ target = None
    /\ target_args = <<>>
    /\ depth = 0
    /\ resolved = None
    /\ expansions = <<>>
    /\ invoked = <<>>

BulkNext ==
    \/ Search
    \/ ConfirmStep
    \/ LoopAppend
    \/ LoopEnd
    \/ Transition
    \/ Update
    \/ Skip
    \/ BatchReturn
    \/ Interrupt

\* one bulk-update invocation
InitBulk == AliasIdle /\ TokIdle /\ ListIdle /\ UpdateIdle /\ TransitionIdle /\ ConfigIdle /\ SearchIdle
    /\ BulkInit

SpecBulk == InitBulk /\ [][BulkNext]_vars

\* one dispatch through run
InitAlias == BulkIdle /\ TokIdle /\ ListIdle /\ UpdateIdle /\ TransitionIdle /\ ConfigIdle /\ SearchIdle
    /\ AliasInit

SpecAlias == InitAlias /\ [][AliasNext]_vars

\* one dispatch through run while the configuration file may be rewritten
SpecReload == InitAlias /\ [][ReloadNext]_vars

\* one run of the tokenizer
InitTok == BulkIdle /\ AliasIdle /\ ListIdle /\ UpdateIdle /\ TransitionIdle /\ ConfigIdle /\ SearchIdle
    /\ TokInit

SpecTok == InitTok /\ [][TokNext]_vars

\* one invocation of list
InitList == BulkIdle /\ AliasIdle /\ TokIdle /\ UpdateIdle /\ TransitionIdle /\ ConfigIdle /\ SearchIdle
    /\ ListInit

SpecList == InitList /\ [][ListNext]_vars

\* one invocation of a command that asks before it mutates: bulk-update or update
ConfirmInit ==
    \/ BulkInit /\ UpdateIdle
    \/ BulkIdle /\ UpdateInit

ConfirmNext ==
    \/ BulkNext
    \/ UpdateNext

InitConfirm == AliasIdle /\ TokIdle /\ ListIdle /\ TransitionIdle /\ ConfigIdle /\ SearchIdle
    /\ ConfirmInit

SpecConfirm == InitConfirm /\ [][ConfirmNext]_vars

\* one call of transition_issue
InitTransition ==
    BulkIdle /\ AliasIdle /\ TokIdle /\ ListIdle /\ UpdateIdle /\ ConfigIdle
    /\ SearchIdle /\ TransitionInit

SpecTransition == InitTransition /\ [][TransitionNext]_vars

\* the calls of load_config of one process
InitConfig ==
    BulkIdle /\ AliasIdle /\ TokIdle /\ ListIdle /\ UpdateIdle /\ TransitionIdle
    /\ SearchIdle /\ ConfigInit

SpecConfig == InitConfig /\ [][ConfigNext]_vars

\* one call of search_issues
InitSearch ==
    BulkIdle /\ AliasIdle /\ TokIdle /\ ListIdle /\ UpdateIdle /\ TransitionIdle
    /\ ConfigIdle /\ SearchInit

SpecSearch == InitSearch /\ [][SearchNext]_vars

(***************************************************************************)
(* Reading the log of calls                                                *)
(***************************************************************************)
IsDispatch(c) == c.op = "dispatch"
IsAdvance(c) == c.op = "advance"
IsMutation(c) == c.op \in {"transition", "update"}
IsRaise(c) == c.op = "raise"

\* the batches given to bulk_update_batch so far, in order
Batches == [k \in 1..Len(SelectSeq(calls, IsDispatch)) |->
               SelectSeq(calls, IsDispatch)[k].items]

\* the amounts advanced on the progress sink so far, in order
Advances == [k \in 1..Len(SelectSeq(calls, IsAdvance)) |->
                SelectSeq(calls, IsAdvance)[k].n]

\* the batches whose bulk_update_batch call has returned
CompletedBatches == SubSeq(Batches, 1, Len(Advances))

\* the issues that received a transition or update call
MutatedKeys == {calls[k].key : k \in {m \in 1..Len(calls) : IsMutation(calls[m])}}

CountCalls(op, key) ==
    Cardinality({k \in 1..Len(calls) : calls[k].op = op /\ calls[k].key = key})

CeilDiv(n, b) == (n + b - 1) \div b

\* the calls bulk_update_batch makes for a batch when nothing fails
RECURSIVE ExpectedCalls(_)
ExpectedCalls(items) ==
    IF items = <<>> THEN <<>>
    ELSE (IF status THEN <<Call("transition", Head(items), 0, <<>>)>> ELSE <<>>)
         \o (IF HasFields THEN <<Call("update", Head(items), 0, <<>>)>> ELSE <<>>)
         \o ExpectedCalls(Tail(items))

\* the part of the log from the dispatch at position p up to the next dispatch
SegmentAfter(p) ==
    LET later == {q \in (p + 1)..Len(calls) : IsDispatch(calls[q])}
        stop == IF later = {} THEN Len(calls) + 1
                ELSE CHOOSE q \in later : \A r \in later : q <= r
    IN  SubSeq(calls, p + 1, stop - 1)

NotRaise(c) == ~IsRaise(c)

(***************************************************************************)
(* C1: with batch_size >= 1 no dispatched batch holds more than batch_size *)
(* issues, the dispatched batches chained together are always the first    *)
(* issues of the result set in their order, and when the run completes     *)
(* they are the whole result set, each issue in exactly one batch.         *)
(***************************************************************************)
C1_BatchesPartitionResultSet ==
    batch_size >= 1 =>
        /\ \A k \in 1..Len(Batches) : Len(Batches[k]) <= batch_size
        /\ IsPrefix(Flatten(Batches), issues)
        /\ pc = "done" =>
              /\ Flatten(Batches) = issues
              /\ \A x \in Range(issues) :
                    Cardinality({k \in 1..Len(Batches) : x \in Range(Batches[k])}) = 1

C1_Witness ==
    /\ pc = "done"
    /\ batch_size = 2
    /\ Len(issues) = 3
    /\ issues[1] > issues[2]
    /\ Len(Batches) = 2

(***************************************************************************)
(* C2: a run of n issues with batch_size b >= 1 in which every batch       *)
(* succeeds dispatches ceil(n/b) batches, all of size b except a last one  *)
(* of size n mod b when that is not zero, advances the progress sink once  *)
(* per batch by the size of the batch, and reports updated = n.            *)
(***************************************************************************)
C2_BatchCountSizesAndTotal ==
    (pc = "done" /\ batch_size >= 1) =>
        LET n == Len(issues)
            b == batch_size
        IN  /\ Len(Batches) = CeilDiv(n, b)
            /\ \A k \in 1..Len(Batches) :
                  Len(Batches[k]) = IF k = Len(Batches) /\ n % b # 0 THEN n % b ELSE b
            /\ Advances = [k \in 1..Len(Batches) |-> Len(Batches[k])]
            /\ updated = n
            /\ completed = n
            /\ console = <<[kind |-> "success", n |-> n]>>

C2_Witness ==
    /\ pc = "done"
    /\ batch_size = 2
    /\ Len(issues) = 3
    /\ Advances = <<2, 1>>
    /\ updated = 3

(***************************************************************************)
(* C3: every transition call and every update call is issued at most once  *)
(* per issue, and nothing is sent after a failure: the failure is the last *)
(* entry of the log and ends the run, so no later batch is dispatched.     *)
(***************************************************************************)
C3_NoRetryAfterFailure ==
    /\ \A x \in IssueKeys : CountCalls("transition", x) <= 1 /\ CountCalls("update", x) <= 1
    /\ \A k \in 1..Len(calls) : IsRaise(calls[k]) => (k = Len(calls) /\ pc = "failed")

C3_Witness ==
    /\ pc = "failed"
    /\ Len(Batches) = 2
    /\ Len(Advances) = 1
    /\ i < Len(issues)
    /\ Len(calls) >= 2
    /\ IsMutation(calls[Len(calls) - 1])

(***************************************************************************)
(* C4: when a batch fails, the number of issues updated before the failure *)
(* is printed, and it is the number of issues of the completed batches.    *)
(***************************************************************************)
C4_CountReportedOnFailure ==
    (pc = "failed" /\ Len(Batches) >= 1) =>
        \E m \in 1..Len(console) :
            /\ console[m].kind = "success"
            /\ console[m].n = Len(Flatten(CompletedBatches))

(***************************************************************************)
(* C5: batches run one after another: between the dispatch of a batch and  *)
(* the next dispatch lie exactly the calls of that batch for all of its    *)
(* issues, in order, followed by one advance of the size of the batch; a   *)
(* batch that is not followed by another has issued a prefix of its calls. *)
(***************************************************************************)
C5_BatchesStrictlySequential ==
    /\ \A p \in 1..Len(calls) :
          IsDispatch(calls[p]) =>
              LET seg == SelectSeq(SegmentAfter(p), NotRaise)
                  whole == ExpectedCalls(calls[p].items)
                           \o <<Call("advance", 0, Len(calls[p].items), <<>>)>>
              IN  IF p + Len(SegmentAfter(p)) < Len(calls)
                     THEN seg = whole
                     ELSE IsPrefix(seg, whole)
    /\ \A p \in 1..Len(calls) :
          (\A q \in 1..p : ~IsDispatch(calls[q])) => IsRaise(calls[p])

C5_Witness ==
    /\ status
    /\ HasFields
    /\ Len(Batches) = 2
    /\ Len(Batches[1]) = 2
    /\ IsMutation(calls[Len(calls)])
    /\ calls[Len(calls)].key \in Range(Batches[2])

(***************************************************************************)
(* C6 as stated: when a run has stopped, the issues that received a        *)
(* mutation call are exactly the issues of the dispatched batches.         *)
(***************************************************************************)
C6_MutatedExactlyDispatched ==
    pc \in {"failed", "interrupted"} => MutatedKeys = Range(Flatten(Batches))

(***************************************************************************)
(* C6 amended: when a run has stopped, the issues that received a mutation *)
(* call are the first m issues of the result set for some m, all of them   *)
(* issues of dispatched batches, and, when a status, assignee or labels    *)
(* are given, all issues of the batches that completed are among them; no  *)
(* issue outside the dispatched batches has received a call.               *)
(***************************************************************************)
C6_MutatedPrefixOfDispatched ==
    pc \in {"failed", "interrupted"} =>
        /\ \E m \in 0..Len(issues) : MutatedKeys = {issues[k] : k \in 1..m}
        /\ MutatedKeys \subseteq Range(Flatten(Batches))
        /\ (status \/ HasFields) => Range(Flatten(CompletedBatches)) \subseteq MutatedKeys
        /\ \A k \in (Len(Flatten(Batches)) + 1)..Len(issues) : issues[k] \notin MutatedKeys

C6_Witness ==
    /\ pc = "failed"
    /\ batch_size = 1
    /\ Len(Batches) = 2
    /\ Len(issues) >= 3
    /\ MutatedKeys = {issues[1]}

(***************************************************************************)
(* C7 as stated: updated always equals the number of issues of the batches *)
(* dispatched so far.                                                      *)
(***************************************************************************)
C7_UpdatedCountsDispatched ==
    updated = Len(Flatten(Batches))

(***************************************************************************)
(* C7 amended: updated is incremented once per batch, by the size of the   *)
(* batch, when bulk_update_batch has returned for it: updated always       *)
(* equals the number of issues of the batches that completed, whatever     *)
(* number of calls was issued for them.                                    *)
(***************************************************************************)
C7_UpdatedCountsCompleted ==
    /\ updated = Len(Flatten(CompletedBatches))
    /\ completed = updated

C7_Witness ==
    /\ pc = "failed"
    /\ updated = 2
    /\ Len(Flatten(Batches)) = 4
    /\ ~status
    /\ Cardinality(MutatedKeys) = 2

(***************************************************************************)
(* C8: an alias is expanded one level only: when the expansion of an alias *)
(* has another alias as its first token, that alias is not expanded.       *)
(***************************************************************************)
C8_NoSecondExpansion ==
    \A k \in 1..(Len(expansions) - 1) :
        ~(/\ expansions[k].first \in DOMAIN config
          /\ expansions[k].first # expansions[k].alias
          /\ expansions[k + 1].alias = expansions[k].first)

(***************************************************************************)
(* C9: when the name a run call resolves to is not a registered built-in   *)
(* command, the call fails with the unknown-command usage error and calls  *)
(* the main of no command.                                                 *)
(***************************************************************************)
C9_UnknownUnlessBuiltin ==
    (resolved # None /\ ~(resolved \in DOMAIN commands /\ commands[resolved] = "builtin")) =>
        /\ dpc = "usage_error"
        /\ invoked = <<>> \/ invoked[Len(invoked)].name # resolved

(***************************************************************************)
(* C10: running an alias whose template is list --opt="value", with no     *)
(* extra arguments, calls the list command once with the two arguments     *)
(* --opt and value, the value without its enclosing quotes.                *)
(***************************************************************************)
C10_OptionAliasCallsList ==
    \A opt \in OptNames, val \in OptValues :
        (/\ get_alias_command(config, invocation.name) = OptTemplate(opt, val)
         /\ invocation.args = <<>>
         /\ dpc # "run" \/ depth > 1)
        => /\ dpc \in {"main", "dispatched"}
           /\ invoked = <<[name |-> cmd_list, args |-> <<opt, val>>]>>

C10_Witness ==
    /\ dpc = "dispatched"
    /\ config = default_config
    /\ invocation = [name |-> alias_todo, args |-> <<>>]
    /\ invoked = <<[name |-> cmd_list, args |-> <<opt_status, val_to_do>>]>>

(***************************************************************************)
(* Reading the first expansion of a dispatch                               *)
(***************************************************************************)
\* the template of the alias the user invoked
FirstTemplate == get_alias_command(config, invocation.name)

\* the first run call expanded that alias
FirstRunExpanded ==
    /\ expansions # <<>>
    /\ expansions[1].alias = invocation.name
    /\ Truthy(FirstTemplate)

\* the tokens of the first expansion after the command name
FirstTokens == Tail(expansions[1].tokens)

IsCombined(tok) == StartsWithDashes(tok) /\ HasEquals(tok)

CombinedBefore(toks, k) == Cardinality({m \in 1..(k - 1) : IsCombined(toks[m])})

\* where the k-th token lands among the arguments given to the command
ForwardIndex(name, toks, k) ==
    IF name = cmd_list THEN k + CombinedBefore(toks, k) ELSE k

AllQuotes(s) == \A k \in 1..Len(s) : s[k] = "\""

\* r is val without the quote characters at its two ends
StrippedOf(val, r) ==
    /\ r = <<>> \/ (r[1] # "\"" /\ r[Len(r)] # "\"")
    /\ \E a \in 0..Len(val) :
          /\ a + Len(r) <= Len(val)
          /\ AllQuotes(SubSeq(val, 1, a))
          /\ SubSeq(val, a + 1, a + Len(r)) = r
          /\ AllQuotes(SubSeq(val, a + Len(r) + 1, Len(val)))

\* s without one pair of enclosing quote characters
WithoutOneLayer(s) ==
    IF Len(s) >= 2 /\ s[1] = "\"" /\ s[Len(s)] = "\"" THEN SubSeq(s, 2, Len(s) - 1) ELSE s

HasMarker(tok) == \E k \in 1..Len(tok) : tok[k] = "$"

MarkerCount(template) == Cardinality({k \in 1..Len(template) : template[k] = "$"})

(***************************************************************************)
(* C11 as stated: whatever built-in command an expanded alias resolves to, *)
(* no --opt=value token reaches it in one piece.                           *)
(***************************************************************************)
C11_EveryCommandSplitsOptions ==
    (FirstRunExpanded /\ invoked # <<>> /\ commands[invoked[1].name] = "builtin") =>
        \A k \in 1..Len(invoked[1].args) : ~IsCombined(invoked[1].args[k])

(***************************************************************************)
(* C11 amended: only for the list command is each --opt=value token of an  *)
(* expanded alias forwarded as the two tokens --opt and value, split at    *)
(* the first "=" and the value without the quote characters at its ends;   *)
(* for every other command the tokens are forwarded as they are, so the    *)
(* token --opt=value stays one token.                                      *)
(***************************************************************************)
C11_OnlyListSplitsOptions ==
    (FirstRunExpanded /\ invoked # <<>>) =>
        LET toks == FirstTokens
            out == invoked[1].args
        IN  IF invoked[1].name = cmd_list
               THEN /\ Len(out) = Len(toks) + CombinedBefore(toks, Len(toks) + 1)
                    /\ \A k \in 1..Len(toks) :
                          IsCombined(toks[k]) =>
                              LET at == k + CombinedBefore(toks, k) IN
                              /\ StartsWithDashes(out[at])
                              /\ ~HasEquals(out[at])
                              /\ IsPrefix(out[at] \o <<"=">>, toks[k])
                              /\ StrippedOf(SubSeq(toks[k], Len(out[at]) + 2, Len(toks[k])),
                                            out[at + 1])
               ELSE out = toks

C11_Witness ==
    /\ dpc = "dispatched"
    /\ invocation.args = <<>>
    /\ invoked = <<[name |-> cmd_view,
                    args |-> <<opt_o \o <<"=", "\"", "a", " ", "a", "\"">>>>]>>

(***************************************************************************)
(* C12 as stated: of the tokens of an expanded alias, each plain           *)
(* positional token is forwarded without one layer of enclosing quotes and *)
(* each option token without "=" is forwarded unchanged.                   *)
(***************************************************************************)
C12_OneLayerStripped ==
    (FirstRunExpanded /\ invoked # <<>>) =>
        LET toks == FirstTokens
            out == invoked[1].args
        IN  \A k \in 1..Len(toks) :
                LET at == ForwardIndex(invoked[1].name, toks, k) IN
                /\ ~StartsWithDashes(toks[k]) => out[at] = WithoutOneLayer(toks[k])
                /\ (StartsWithDashes(toks[k]) /\ ~HasEquals(toks[k])) => out[at] = toks[k]

(***************************************************************************)
(* C12 amended: only for the list command does the dispatcher strip        *)
(* quotes: from each token that does not start with "--" it removes all    *)
(* the quote characters at its two ends (every layer, paired or not), and  *)
(* it leaves each option token without "=" unchanged; for every other      *)
(* command all tokens are forwarded unchanged, quotes included.            *)
(***************************************************************************)
C12_ListStripsAllEndQuotes ==
    (FirstRunExpanded /\ invoked # <<>>) =>
        LET toks == FirstTokens
            out == invoked[1].args
        IN  \A k \in 1..Len(toks) :
                LET at == ForwardIndex(invoked[1].name, toks, k) IN
                IF invoked[1].name = cmd_list
                   THEN /\ ~StartsWithDashes(toks[k]) => StrippedOf(toks[k], out[at])
                        /\ (StartsWithDashes(toks[k]) /\ ~HasEquals(toks[k]))
                              => out[at] = toks[k]
                   ELSE out[at] = toks[k]

C12_Witness ==
    /\ dpc = "dispatched"
    /\ invocation.args = <<>>
    /\ expansions # <<>>
    /\ FirstTokens = << <<"\"", "\"", "x", "\"", "\"">>, arg_v >>
    /\ invoked = <<[name |-> cmd_list, args |-> <<arg_x, arg_v>>]>>

C14_ExtraArgsAppended ==
    (FirstRunExpanded /\ MarkerCount(FirstTemplate) = 0) =>
        LET tokens == expansions[1].tokens
            n == Len(invocation.args)
        IN  /\ tokens = Tokenize(FirstTemplate) \o invocation.args
            /\ Len(tokens) > n
            /\ SubSeq(tokens, Len(tokens) - n + 1, Len(tokens)) = invocation.args

C14_Witness ==
    /\ dpc = "dispatched"
    /\ invocation.args = <<arg_y, arg_x>>
    /\ expansions # <<>>
    /\ expansions[1].tokens = <<cmd_view, <<"\"", "x", " ", "y", "\"">>, arg_y, arg_x>>

(***************************************************************************)
(* C15: tokenizing and expanding a template never raises, also when the    *)
(* template is empty or holds spaces only.                                 *)
(***************************************************************************)
C15_ExpansionNeverRaises ==
    dpc # "index_error"

(***************************************************************************)
(* Reading the tokenizer's input by position                               *)
(***************************************************************************)
QuotesBefore(s, m) == Cardinality({n \in 1..(m - 1) : s[n] = "\""})

\* the character at m stands outside every quoted run
Unquoted(s, m) == s[m] # "\"" /\ QuotesBefore(s, m) % 2 = 0

\* the characters before m that the tokenizer keeps in some token
KeptBefore(s, m) == Cardinality({n \in 1..(m - 1) : ~(s[n] = " " /\ Unquoted(s, n))})

\* s[p..q] is a quoted run: an opening quote, its closing quote, none between
QuotedRun(s, p, q) ==
    /\ p < q
    /\ s[p] = "\"" /\ s[q] = "\""
    /\ QuotesBefore(s, p) % 2 = 0
    /\ \A n \in (p + 1)..(q - 1) : s[n] # "\""

IsWhitespace(char) == char \in {" ", "\t", "\n"}

(***************************************************************************)
(* C16: a quoted run with spaces inside ends up whole in exactly one       *)
(* token, with its spaces and both of its quote characters.                *)
(***************************************************************************)
C16_QuotedRunIsOneToken ==
    tpc = "done" =>
        \A p, q \in 1..Len(tok_string) :
            (/\ QuotedRun(tok_string, p, q)
             /\ \E n \in (p + 1)..(q - 1) : tok_string[n] = " ") =>
                \E k \in 1..Len(tok_parts) :
                    LET off == KeptBefore(tok_string, p)
                                 - Len(Flatten(SubSeq(tok_parts, 1, k - 1)))
                    IN  /\ off >= 0
                        /\ off + (q - p + 1) <= Len(tok_parts[k])
                        /\ SubSeq(tok_parts[k], off + 1, off + (q - p + 1))
                              = SubSeq(tok_string, p, q)

C16_Witness ==
    /\ tpc = "done"
    /\ tok_string = <<"a", "\"", " ", " ", "\"">>
    /\ tok_parts = << tok_string >>

(***************************************************************************)
(* C17: the tokenizer splits at every whitespace character outside quotes, *)
(* a tab or a newline like a space: the only whitespace left in the tokens *)
(* is the whitespace that stood inside quotes.                             *)
(***************************************************************************)
C17_SplitsAtAnyWhitespace ==
    tpc = "done" =>
        LET flat == Flatten(tok_parts) IN
        Cardinality({n \in 1..Len(flat) : IsWhitespace(flat[n])})
          = Cardinality({m \in 1..Len(tok_string) :
                            /\ IsWhitespace(tok_string[m])
                            /\ ~Unquoted(tok_string, m)})

(***************************************************************************)
(* Reading the filter built by list                                        *)
(***************************************************************************)
\* project, environment default, assignee, status and free text all absent
AllAbsent ==
    /\ ~NonEmpty(project)
    /\ ~NonEmpty(JIRA_DEFAULT_PROJECT)
    /\ ~NonEmpty(list_assignee)
    /\ ~NonEmpty(list_status)
    /\ query = <<>>

\* the number of clauses the inputs ask for
GivenCount ==
    (IF NonEmpty(project) \/ NonEmpty(JIRA_DEFAULT_PROJECT) THEN 1 ELSE 0)
    + (IF NonEmpty(list_assignee) THEN 1 ELSE 0)
    + (IF NonEmpty(list_status) THEN 1 ELSE 0)
    + (IF query # <<>> THEN 1 ELSE 0)

\* the place of a clause in the fixed order: project, assignee, status, text
ClauseKind(clause) ==
    IF IsPrefix(str_project_eq, clause) THEN 1
    ELSE IF IsPrefix(str_assignee_eq, clause) THEN 2
    ELSE IF IsPrefix(str_status_eq, clause) THEN 3
    ELSE IF clause # <<>> /\ clause[1] = "(" /\ clause[Len(clause)] = ")" THEN 4
    ELSE 0

\* the clauses with the separator between each two neighbours
Interleaved(conds) ==
    Flatten([k \in 1..(2 * Len(conds) - 1) |->
                IF k % 2 = 1 THEN conds[(k + 1) \div 2] ELSE str_and])

(***************************************************************************)
(* C18: the default clause is appended exactly when project, environment   *)
(* default, assignee, status and free text are all absent or empty; the    *)
(* filter is then exactly "assignee = currentUser()"; and the filter is    *)
(* never empty.                                                            *)
(***************************************************************************)
C18_DefaultExactlyWhenNothingGiven ==
    lpc \in {"search", "returned", "exited"} =>
        /\ Len(conditions) = GivenCount + (IF AllAbsent THEN 1 ELSE 0)
        /\ AllAbsent => jql = <<"a", "s", "s", "i", "g", "n", "e", "e", " ", "=", " ", "c", "u", "r", "r", "e", "n", "t", "U", "s", "e", "r", "(", ")">>
        /\ jql # <<>>
        /\ jql # None

C18_Witness ==
    /\ lpc = "returned"
    /\ AllAbsent
    /\ project = <<>>
    /\ conditions = <<str_default>>
    /\ jql = <<"a", "s", "s", "i", "g", "n", "e", "e", " ", "=", " ", "c", "u", "r", "r", "e", "n", "t", "U", "s", "e", "r", "(", ")">>

(***************************************************************************)
(* C19: the clauses stand in the fixed order project, assignee, status,    *)
(* free text (in parentheses), joined by " AND " with no whitespace at     *)
(* either end; project X with status In Progress gives                     *)
(* project = X AND status = 'In Progress'.                                 *)
(***************************************************************************)
C19_FixedOrderJoinedByAnd ==
    lpc \in {"search", "returned", "exited"} =>
        /\ \A k \in 1..Len(conditions) : ClauseKind(conditions[k]) \in 1..4
        /\ \A k \in 1..(Len(conditions) - 1) :
              ClauseKind(conditions[k]) < ClauseKind(conditions[k + 1])
        /\ NonEmpty(list_assignee) =>
              \E k \in 1..Len(conditions) : conditions[k] = str_assignee_eq \o list_assignee
        /\ NonEmpty(list_status) =>
              \E k \in 1..Len(conditions) :
                  conditions[k] = str_status_eq \o <<"'">> \o list_status \o <<"'">>
        /\ query # <<>> =>
              conditions[Len(conditions)] = <<"(">> \o query \o <<")">>
        /\ jql = Interleaved(conditions)
        /\ jql[1] # " " /\ jql[Len(jql)] # " "
        /\ (/\ project = val_X
            /\ list_status = val_In_Progress
            /\ ~NonEmpty(list_assignee)
            /\ query = <<>>) => jql = 
              <<"p", "r", "o", "j", "e", "c", "t", " ", "=", " ", "X", " ", "A", "N", "D", " ", "s", "t", "a", "t", "u", "s", " ", "=", " ", "'", "I", "n", " ", "P", "r", "o", "g", "r", "e", "s", "s", "'">>

C19_Witness ==
    /\ lpc = "returned"
    /\ project = val_X
    /\ list_status = val_In_Progress
    /\ list_assignee = None
    /\ query = <<>>
    /\ jql = 
              <<"p", "r", "o", "j", "e", "c", "t", " ", "=", " ", "X", " ", "A", "N", "D", " ", "s", "t", "a", "t", "u", "s", " ", "=", " ", "'", "I", "n", " ", "P", "r", "o", "g", "r", "e", "s", "s", "'">>

(***************************************************************************)
(* C20: the project clause names the explicit project when one is given,   *)
(* the environment default exactly when no project is given and a default  *)
(* is present, and there is no project clause when neither is; project X   *)
(* alone gives project = X.                                                *)
(***************************************************************************)
C20_ProjectClauseSource ==
    lpc \in {"search", "returned", "exited"} =>
        /\ NonEmpty(project) => conditions[1] = str_project_eq \o project
        /\ (~NonEmpty(project) /\ NonEmpty(JIRA_DEFAULT_PROJECT)) =>
              conditions[1] = str_project_eq \o JIRA_DEFAULT_PROJECT
        /\ (~NonEmpty(project) /\ ~NonEmpty(JIRA_DEFAULT_PROJECT)) =>
              \A k \in 1..Len(conditions) : ~IsPrefix(str_project_eq, conditions[k])
        /\ Cardinality({k \in 1..Len(conditions) :
                           IsPrefix(str_project_eq, conditions[k])}) <= 1
        /\ (/\ project = val_X
            /\ ~NonEmpty(list_assignee)
            /\ ~NonEmpty(list_status)
            /\ query = <<>>) => jql = <<"p", "r", "o", "j", "e", "c", "t", " ", "=", " ", "X">>

C20_Witness ==
    /\ lpc = "search"
    /\ project = val_X
    /\ JIRA_DEFAULT_PROJECT = val_E
    /\ list_assignee = None
    /\ list_status = None
    /\ query = <<>>
    /\ jql = <<"p", "r", "o", "j", "e", "c", "t", " ", "=", " ", "X">>

(***************************************************************************)
(* C21 as stated: the query my issues is exactly assignee = currentUser()  *)
(* without a status, and exactly                                           *)
(* assignee = currentUser() AND status = 'S' with the status S.            *)
(***************************************************************************)
C21_MyQueryExact ==
    (list_cmd = "my" /\ lpc \in {"search", "returned", "exited"}) =>
        jql = IF NonEmpty(list_status)
                 THEN str_default \o str_and \o str_status_eq
                        \o <<"'">> \o list_status \o <<"'">>
                 ELSE str_default

(***************************************************************************)
(* C21 amended: my issues the query that list issues for the assignee      *)
(* currentUser(), the same status, no project option and no free text:     *)
(* when no default project is set in the environment it is                 *)
(* assignee = currentUser() without a status and                           *)
(* assignee = currentUser() AND status = 'S' with the status S; when the   *)
(* environment sets the default project E, the clause project = E and      *)
(* " AND " stand in front of it.                                           *)
(***************************************************************************)
C21_MyQueryAsList ==
    (list_cmd = "my" /\ lpc \in {"search", "returned", "exited"}) =>
        LET tail == IF NonEmpty(list_status)
                       THEN 
                            <<"a", "s", "s", "i", "g", "n", "e", "e", " ", "=", " ", "c", "u", "r", "r", "e", "n", "t", "U", "s", "e", "r", "(", ")">> \o <<" ", "A", "N", "D", " ">>
                              \o <<"s", "t", "a", "t", "u", "s", " ", "=", " ", "'">>
                              \o list_status \o <<"'">>
                       ELSE 
                            <<"a", "s", "s", "i", "g", "n", "e", "e", " ", "=", " ", "c", "u", "r", "r", "e", "n", "t", "U", "s", "e", "r", "(", ")">>
        IN  /\ project = None /\ query = <<>> /\ list_assignee = val_currentUser
            /\ jql = IF NonEmpty(JIRA_DEFAULT_PROJECT)
                        THEN <<"p", "r", "o", "j", "e", "c", "t", " ", "=", " ">>
                               \o JIRA_DEFAULT_PROJECT \o <<" ", "A", "N", "D", " ">> \o tail
                        ELSE tail

C21_Witness ==
    /\ list_cmd = "my"
    /\ lpc = "returned"
    /\ list_status = val_Done
    /\ JIRA_DEFAULT_PROJECT = val_E
    /\ jql = 
          <<"p", "r", "o", "j", "e", "c", "t", " ", "=", " ", "E", " ", "A", "N", "D", " ", "a", "s", "s", "i", "g", "n", "e", "e", " ", "=", " ", "c", "u", "r", "r", "e", "n", "t", "U", "s", "e", "r", "(", ")", " ", "A", "N", "D", " ", "s", "t", "a", "t", "u", "s", " ", "=", " ", "'", "D", "o", "n", "e", "'">>

(***************************************************************************)
(* C22: when the search of list returns no issues, list prints the         *)
(* "No issues found" message and ends with exit code 1.                    *)
(***************************************************************************)
C22_NoResultsExitsOne ==
    (/\ list_console # <<>>
     /\ list_console[Len(list_console)] = "No issues found matching the criteria") =>
        list_exit = 1

(***************************************************************************)
(* C23: a command invocation that reports a failure, an unknown command    *)
(* or alias included, ends with exit code 1.                               *)
(***************************************************************************)
C23_FailureExitsOne ==
    dpc \in {"usage_error", "index_error", "recursion_error"} => ExitStatus = 1

(***************************************************************************)
(* C26: the template used when an alias is dispatched is the one that was  *)
(* loaded at startup, also when the configuration file changes while the   *)
(* process runs.                                                           *)
(***************************************************************************)
C26_TemplateFromStartup ==
    \A k \in 1..Len(expansions) :
        expansions[k].template = get_alias_command(startup_aliases, expansions[k].alias)

(***************************************************************************)
(* C27: the chain of run calls of a dispatch stays bounded and ends with a  *)
(* handler invoked or with the unknown-command error, also when aliases    *)
(* name themselves or each other: it never runs into the recursion limit   *)
(* of the interpreter.                                                     *)
(***************************************************************************)
C27_DispatchTerminates ==
    dpc # "recursion_error"

(***************************************************************************)
(* C28: every built-in command name, run included, maps to its built-in    *)
(* handler in the command table, whatever alias names are configured.      *)
(***************************************************************************)
C28_BuiltinsKeepHandlers ==
    dpc # "idle" =>
        \A n \in BuiltinsBefore \cup BuiltinsAfter :
            n \in DOMAIN commands /\ commands[n] = "builtin"

(***************************************************************************)
(* C30: in bulk-update and update without --yes, no mutation call is sent  *)
(* before the user has confirmed, and none at all when the user declines.  *)
(***************************************************************************)
C30_NoMutationUnconfirmed ==
    LET bulk_mutations == SelectSeq(calls, IsMutation)
        update_mutations == {k \in 1..Len(update_calls) : update_calls[k].op = "update"}
    IN  /\ (~yes /\ bulk_mutations # <<>>) => confirmation = "confirmed"
        /\ (~yes /\ SelectSeq(calls, IsDispatch) # <<>>) => confirmation = "confirmed"
        /\ confirmation = "declined" =>
              /\ bulk_mutations = <<>>
              /\ SelectSeq(calls, IsDispatch) = <<>>
              /\ pc = "cancelled"
        /\ (~update_yes /\ update_mutations # {}) => update_confirmation = "confirmed"
        /\ update_confirmation = "declined" =>
              /\ update_calls = <<>>
              /\ upc = "cancelled"

C30_Witness ==
    /\ ~update_yes
    /\ update_confirmation = "confirmed"
    /\ upc = "done"
    /\ Len(update_calls) = 2
    /\ update_calls[2].op = "update"
    /\ update_calls[2].fields = {"status"}

(***************************************************************************)
(* C24: a transition name that matches none of the transitions of the      *)
(* issue makes transition_issue fail with an error of kind ValidationError *)
(* and no transition call is sent to the remote service.                   *)
(***************************************************************************)
C24_UnknownTransitionIsValidationError ==
    (/\ xpc = "raised"
     /\ x_origin = "ValidationError"
     /\ \A k \in 1..Len(transitions) : ~Matches(transitions[k], transition_name)) =>
        /\ x_error = "ValidationError"
        /\ \A k \in 1..Len(x_calls) : x_calls[k].op # "transition_issue"

(***************************************************************************)
(* C25: a load that finds no configuration file returns the default        *)
(* aliases and writes them to the file, and every later load of the file   *)
(* returns the same mapping.                                               *)
(***************************************************************************)
C25_DefaultPersistedAndReloaded ==
    \A k \in 1..Len(loads) :
        (loads[k].ok /\ loads[k].created) =>
            /\ loads[k].value = default_config
            /\ home_exists
            /\ Load(home_file) = default_config
            /\ \A m \in (k + 1)..Len(loads) :
                  loads[m].ok => (loads[m].value = loads[k].value /\ ~loads[m].created)

C25_Witness ==
    /\ Len(loads) = 3
    /\ loads[1].ok /\ loads[1].created
    /\ loads[2].ok /\ loads[2].value = default_config
    /\ loads[3].ok /\ loads[3].value = default_config
    /\ ~local_exists

====
